---- MODULE Spec2Model ----
(***************************************************************************)
(* Model of Gene_extractor.py: the GeneReviewsExtractor class (mapping     *)
(* load, JSON file cache, document fetcher, gene aggregator) and the batch *)
(* driver main().                                                          *)
(*                                                                         *)
(* Python strings that the code takes apart (mapping lines, gene symbols,  *)
(* document identifiers) are sequences of one-character strings.  Document *)
(* texts (titles, headings, paragraphs) are sequences of chunks, a chunk   *)
(* being a run of characters the code never looks into.  The report's      *)
(* timestamp and the logger are left out.                                  *)
(*                                                                         *)
(* Three specifications: Spec (a constructed extractor and any sequence of *)
(* calls on it), SpecLoad (the constructor's mapping load) and SpecMain    *)
(* (the batch driver).                                                     *)
(***************************************************************************)
EXTENDS Integers, Sequences, FiniteSets, TLC

VARIABLES
    pc,               \* position of the caller: "start", "ready", "loop", "done", "failed"
    map_text,         \* body of the mapping resource (genereviews_map_url)
    gene_to_nbk_map,  \* self.gene_to_nbk_map
    nbk_to_gene_map,  \* self.nbk_to_gene_map
    cache_dir,        \* self.cache_dir: None or "cache"
    files,            \* content of <cache_dir>/<cache_key>.json, per cache key
    argv_genes,       \* args.genes extended with the gene file's symbols
    genes,            \* main's deduplicated list
    results,          \* main's results
    output_data,      \* main's report, None until built
    call,             \* the last call made on the extractor and what it returned
    fetched,          \* history: per document id, the first record fetch_genereview_content returned
    stored            \* history: per cache key, the record last written by _save_to_cache

vars == <<pc, map_text, gene_to_nbk_map, nbk_to_gene_map, cache_dir, files,
          argv_genes, genes, results, output_data, call, fetched, stored>>

\* Optional[T]: None is the empty tuple, a present value x is <<x>>
None == <<>>
Some(x) == <<x>>

(***************************************************************************)
(* Bounds of the model.                                                    *)
(***************************************************************************)
MaxLines == 3      \* lines of the mapping resource in the load specification
MaxGenes == 3      \* length of the batch driver's input list
MaxTags == 3       \* body tags of a document in the extraction specification

(***************************************************************************)
(* str methods.                                                            *)
(***************************************************************************)
TAB == "\t"
CR == "\r"
NL == "\n"
SPACE == " "
SEMI == ";"

\* characters str.strip() removes
IsSpace(c) == c \in {SPACE, TAB, CR, NL}

RECURSIVE LStrip(_)
LStrip(s) ==
    IF s # <<>> /\ IsSpace(Head(s)) THEN LStrip(Tail(s)) ELSE s

RECURSIVE RStrip(_)
RStrip(s) ==
    IF s # <<>> /\ IsSpace(s[Len(s)]) THEN RStrip(SubSeq(s, 1, Len(s) - 1)) ELSE s

\* str.strip()
Strip(s) == RStrip(LStrip(s))

\* str.upper() on one character
UpperChar(c) ==
    CASE c = "a" -> "A"
      [] c = "b" -> "B"
      [] c = "x" -> "X"
      [] OTHER -> c

\* str.upper()
Upper(s) == [i \in 1..Len(s) |-> UpperChar(s[i])]

\* str.split(sep) for a one-character sep: always at least one field
RECURSIVE SplitFrom(_, _, _, _)
SplitFrom(s, sep, i, cur) ==
    IF i > Len(s) THEN <<cur>>
    ELSE IF s[i] = sep THEN <<cur>> \o SplitFrom(s, sep, i + 1, <<>>)
    ELSE SplitFrom(s, sep, i + 1, Append(cur, s[i]))

Split(s, sep) == SplitFrom(s, sep, 1, <<>>)

\* sep.join(parts)
RECURSIVE Join(_, _)
Join(parts, sep) ==
    IF parts = <<>> THEN <<>>
    ELSE IF Len(parts) = 1 THEN parts[1]
    ELSE parts[1] \o <<sep>> \o Join(Tail(parts), sep)

Range(s) == {s[i] : i \in 1..Len(s)}

EmptyMap == <<>>

\* d[k] = v on a dict
DictSet(d, k, v) == [x \in (DOMAIN d) \cup {k} |-> IF x = k THEN v ELSE d[x]]

\* d.get(k, default)
DictGet(d, k, default) == IF k \in DOMAIN d THEN d[k] ELSE default

(***************************************************************************)
(* Identifier mapper: _load_nbk_mapping.                                   *)
(***************************************************************************)
\* the inner loop: for gene in genes (lines 60-65)
RECURSIVE RegisterGenes(_, _, _)

\* RegisterGenes that starts a new list for every identifier
RegisterGenesOverwrite(maps, nbk_id, gs) ==
    IF gs = <<>> THEN maps
    ELSE LET gene == Upper(Strip(Head(gs)))
         IN RegisterGenes([g2n |-> DictSet(maps.g2n, gene, <<nbk_id>>),
                           n2g |-> DictSet(maps.n2g, nbk_id, gene)],
                          nbk_id, Tail(gs))

RegisterGenes(maps, nbk_id, gs) ==
    IF gs = <<>> THEN maps
    ELSE LET gene == Upper(Strip(Head(gs)))
             old  == DictGet(maps.g2n, gene, <<>>)
         IN RegisterGenes([g2n |-> DictSet(maps.g2n, gene, Append(old, nbk_id)),
                           n2g |-> DictSet(maps.n2g, nbk_id, gene)],
                          nbk_id, Tail(gs))

\* the body of the outer loop for one line (lines 55-65)
LoadLine(maps, line) ==
    IF Strip(line) = <<>> THEN maps
    ELSE LET parts == Split(Strip(line), TAB)
         IN IF Len(parts) >= 2
            THEN RegisterGenes(maps, parts[1],
                               IF Len(parts) > 2 THEN Split(parts[3], SEMI) ELSE <<>>)
            ELSE maps

RECURSIVE LoadLines(_, _)
LoadLines(maps, lines) ==
    IF lines = <<>> THEN maps
    ELSE LoadLines(LoadLine(maps, Head(lines)), Tail(lines))

\* the maps after a successful _load_nbk_mapping of a response body
LoadNbkMapping(text) ==
    LoadLines([g2n |-> EmptyMap, n2g |-> EmptyMap], Split(text, NL))

(***************************************************************************)
(* json.dump / json.load on the dicts the program caches: objects whose    *)
(* values are strings.  A file's content is a sequence of tokens; a string *)
(* literal is its chunks between two quote tokens, with a line break and   *)
(* a quote inside it escaped.                                              *)
(***************************************************************************)
LBRACE == "{"
RBRACE == "}"
COLON == ":"
COMMA == ","
QUOTE == "\""
BLANKLINE == "\n\n"
ESCAPED == "\\n\\n"
ESCQUOTE == "\\\""

\* insertion order of the keys of the dicts the program builds
KeyOrder == <<"disease_name", "clinical_characteristics",
              "evaluation_of_relatives", "genetic_counseling", "name">>

\* EscapeChunk without the escapes
EscapeChunkRaw(c) == c

EscapeChunk(c) ==
    IF c = BLANKLINE THEN ESCAPED ELSE IF c = QUOTE THEN ESCQUOTE ELSE c

UnescapeChunk(c) ==
    IF c = ESCAPED THEN BLANKLINE ELSE IF c = ESCQUOTE THEN QUOTE ELSE c

DumpString(s) == <<QUOTE>> \o [i \in 1..Len(s) |-> EscapeChunk(s[i])] \o <<QUOTE>>

RECURSIVE DumpMembers(_, _, _)
DumpMembers(d, i, first) ==
    IF i > Len(KeyOrder) THEN <<>>
    ELSE IF KeyOrder[i] \in DOMAIN d
         THEN (IF first THEN <<>> ELSE <<COMMA>>)
              \o DumpString(<<KeyOrder[i]>>) \o <<COLON>> \o DumpString(d[KeyOrder[i]])
              \o DumpMembers(d, i + 1, FALSE)
         ELSE DumpMembers(d, i + 1, first)

\* the text json.dump(data, f) writes
JsonDump(d) == <<LBRACE>> \o DumpMembers(d, 1, TRUE) \o <<RBRACE>>

JsonFail == [ok |-> FALSE, value |-> <<>>, next |-> 0]

\* index of the first QUOTE at or after i, 0 when there is none
RECURSIVE FindQuote(_, _)
FindQuote(toks, i) ==
    IF i > Len(toks) THEN 0
    ELSE IF toks[i] = QUOTE THEN i
    ELSE FindQuote(toks, i + 1)

ParseString(toks, i) ==
    IF i > Len(toks) \/ toks[i] # QUOTE THEN JsonFail
    ELSE LET j == FindQuote(toks, i + 1)
         IN IF j = 0 THEN JsonFail
            ELSE [ok |-> TRUE,
                  value |-> [k \in 1..(j - i - 1) |-> UnescapeChunk(toks[i + k])],
                  next |-> j + 1]

RECURSIVE ParseMembers(_, _, _)
ParseMembers(toks, i, acc) ==
    LET key == ParseString(toks, i)
    IN IF ~key.ok \/ Len(key.value) # 1 THEN JsonFail
       ELSE IF key.next > Len(toks) \/ toks[key.next] # COLON THEN JsonFail
       ELSE LET val == ParseString(toks, key.next + 1)
            IN IF ~val.ok \/ val.next > Len(toks) THEN JsonFail
               ELSE LET acc2 == DictSet(acc, key.value[1], val.value)
                    IN IF toks[val.next] = COMMA
                       THEN ParseMembers(toks, val.next + 1, acc2)
                       ELSE IF toks[val.next] = RBRACE /\ val.next = Len(toks)
                       THEN [ok |-> TRUE, value |-> acc2, next |-> val.next + 1]
                       ELSE JsonFail

\* json.load(f): ok = FALSE stands for JSONDecodeError
JsonLoad(toks) ==
    IF Len(toks) < 2 \/ toks[1] # LBRACE THEN JsonFail
    ELSE IF toks[2] = RBRACE
         THEN (IF Len(toks) = 2 THEN [ok |-> TRUE, value |-> <<>>, next |-> 3]
               ELSE JsonFail)
    ELSE ParseMembers(toks, 2, <<>>)

(***************************************************************************)
(* Cache store: _get_cached_data, _save_to_cache.  fs maps a cache key to  *)
(* None (no file) or Some(content).                                        *)
(***************************************************************************)
\* f"genereview_{nbk_id}", f"gene_{gene}"
GenereviewKey(nbk_id) == <<"genereview_">> \o nbk_id
GeneKey(gene) == <<"gene_">> \o gene

\* Optional[Dict]
GetCachedData(dir, fs, cache_key) ==
    IF dir = None THEN None
    ELSE IF fs[cache_key] # None
         THEN LET r == JsonLoad(fs[cache_key][1])
              IN IF r.ok THEN Some(r.value) ELSE None
         ELSE None

\* SaveToCache that leaves an existing file alone
SaveToCacheKeepExisting(dir, fs, cache_key, data) ==
    IF dir = None \/ fs[cache_key] # None THEN fs
    ELSE [fs EXCEPT ![cache_key] = Some(JsonDump(data))]

\* the files after _save_to_cache(cache_key, data)
SaveToCache(dir, fs, cache_key, data) ==
    IF dir = None THEN fs
    ELSE [fs EXCEPT ![cache_key] = Some(JsonDump(data))]

\* truth value of an Optional[Dict]: None and the empty dict are false
Truthy(opt) == opt # None /\ opt[1] # <<>>

(***************************************************************************)
(* Section extractor: _extract_text_from_section.  A parsed document is    *)
(* its title (Optional) and the sequence of sibling tags of its body; a    *)
(* tag has a name, its strings (those of its descendants included, in      *)
(* document order), each a sequence of chunks, and its child tags.         *)
(* Strings that lie between tags are left out: find() and                  *)
(* find_next_sibling() pass over them.                                     *)
(***************************************************************************)
Headings == {"h2", "h3", "h4"}
Blocks == {"p", "ul", "ol"}

\* str.lower() on one chunk
LowerChunk(c) ==
    CASE c = "Clinical Characteristics" -> "clinical characteristics"
      [] c = "CLINICAL CHARACTERISTICS" -> "clinical characteristics"
      [] c = "Evaluation of Relatives at Risk" -> "evaluation of relatives at risk"
      [] c = "Genetic Counseling" -> "genetic counseling"
      [] OTHER -> c

Lower(s) == [i \in 1..Len(s) |-> LowerChunk(s[i])]

\* needle in hay, on chunks
Contains(needle, hay) ==
    \E i \in 1..(Len(hay) - Len(needle) + 1) :
        SubSeq(hay, i, i + Len(needle) - 1) = needle

RECURSIVE Concat(_)
Concat(ss) == IF ss = <<>> THEN <<>> ELSE Head(ss) \o Concat(Tail(ss))

\* tag.text
TagText(tag) == Concat(tag.strings)

RECURSIVE StrippedStrings(_)
StrippedStrings(ss) ==
    IF ss = <<>> THEN <<>>
    ELSE (IF Strip(Head(ss)) # <<>> THEN <<Strip(Head(ss))>> ELSE <<>>)
         \o StrippedStrings(Tail(ss))

\* tag.get_text(strip=True, separator=' ')
GetText(tag) == Join(StrippedStrings(tag.strings), SPACE)

\* the lambda of line 123
IsHeader(tag, section_title) ==
    /\ tag.name \in Headings
    /\ Contains(Lower(section_title), Lower(TagText(tag)))

\* soup.find(lambda tag: ...): the path (child indexes from the body down)
\* of the first matching tag in document order, <<>> for None
RECURSIVE FindHeader(_, _, _)
FindHeader(tags, section_title, i) ==
    IF i > Len(tags) THEN <<>>
    ELSE IF IsHeader(tags[i], section_title) THEN <<i>>
    ELSE LET inner == FindHeader(tags[i].children, section_title, 1)
         IN IF inner # <<>> THEN <<i>> \o inner
            ELSE FindHeader(tags, section_title, i + 1)

\* the tags that find_next_sibling() walks: the children of the parent of
\* the tag at path
RECURSIVE SiblingsOf(_, _)
SiblingsOf(tags, path) ==
    IF Len(path) = 1 THEN tags
    ELSE SiblingsOf(tags[Head(path)].children, Tail(path))

RECURSIVE CollectContent(_, _, _)

\* CollectContent that does not stop at a heading
CollectContentPastHeadings(siblings, j, content) ==
    IF j > Len(siblings) THEN content
    ELSE CollectContent(siblings, j + 1,
             IF siblings[j].name \in Blocks /\ GetText(siblings[j]) # <<>>
             THEN Append(content, GetText(siblings[j]))
             ELSE content)

\* the while loop over the following siblings (lines 131-136)
CollectContent(siblings, j, content) ==
    IF j > Len(siblings) \/ siblings[j].name \in Headings THEN content
    ELSE CollectContent(siblings, j + 1,
             IF siblings[j].name \in Blocks /\ GetText(siblings[j]) # <<>>
             THEN Append(content, GetText(siblings[j]))
             ELSE content)

ExtractTextFromSection(soup, section_title) ==
    LET header == FindHeader(soup.body, section_title, 1)
    IN IF header = <<>> THEN <<>>
       ELSE Join(CollectContent(SiblingsOf(soup.body, header),
                                header[Len(header)] + 1, <<>>), BLANKLINE)

(***************************************************************************)
(* Document fetcher: fetch_genereview_content.                             *)
(***************************************************************************)
TitleSep == " - "

\* lines 161-176: the sections dict built from a parsed response
BuildSections(soup) ==
    [disease_name |->
        IF soup.title # None THEN Split(soup.title[1], TitleSep)[1]
        ELSE <<"Unknown Disease">>,
     clinical_characteristics |->
        ExtractTextFromSection(soup, <<"Clinical Characteristics">>),
     evaluation_of_relatives |->
        ExtractTextFromSection(soup, <<"Evaluation of Relatives at Risk">>),
     genetic_counseling |->
        ExtractTextFromSection(soup, <<"Genetic Counseling">>)]

\* What the network and the parser do for one fetch:
\*   "ok"      the GET succeeds and the body parses to soup
\*   "network" session.get or raise_for_status raises a RequestException
\*   "error"   an exception that is no RequestException is raised while the
\*             response is parsed (before anything is cached)
NoSoup == [title |-> None, body |-> <<>>]
ParseErrorText == <<"parser rejected markup">>

\* FetchGenereviewContent that never looks into the cache
FetchGenereviewContentNoCache(dir, fs, nbk_id, outcome) ==
    LET cache_key == GenereviewKey(nbk_id)
    IN IF outcome.kind = "network"
       THEN [ret |-> None, raised |-> None, files |-> fs,
             net |-> TRUE, put |-> FALSE]
       ELSE IF outcome.kind = "error"
       THEN [ret |-> None, raised |-> Some(ParseErrorText), files |-> fs,
             net |-> TRUE, put |-> FALSE]
       ELSE LET sections == BuildSections(outcome.soup)
            IN [ret |-> Some(sections), raised |-> None,
                files |-> SaveToCache(dir, fs, cache_key, sections),
                net |-> TRUE, put |-> TRUE]

\* FetchGenereviewContent without its except clause: a RequestException leaves the call
FetchGenereviewContentNoExcept(dir, fs, nbk_id, outcome) ==
    LET cache_key == GenereviewKey(nbk_id)
        cached_data == GetCachedData(dir, fs, cache_key)
    IN IF Truthy(cached_data)
       THEN [ret |-> cached_data, raised |-> None, files |-> fs,
             net |-> FALSE, put |-> FALSE]
       ELSE IF outcome.kind \in {"network", "error"}
       THEN [ret |-> None, raised |-> Some(ParseErrorText), files |-> fs,
             net |-> TRUE, put |-> FALSE]
       ELSE LET sections == BuildSections(outcome.soup)
            IN [ret |-> Some(sections), raised |-> None,
                files |-> SaveToCache(dir, fs, cache_key, sections),
                net |-> TRUE, put |-> TRUE]

\* One call.  ret is the Optional[Dict] returned, raised the Optional message of
\* an exception that leaves the call, files the cache afterwards, net whether
\* session.get was called, put whether _save_to_cache was called.
FetchGenereviewContent(dir, fs, nbk_id, outcome) ==
    LET cache_key == GenereviewKey(nbk_id)
        cached_data == GetCachedData(dir, fs, cache_key)
    IN IF Truthy(cached_data)
       THEN [ret |-> cached_data, raised |-> None, files |-> fs,
             net |-> FALSE, put |-> FALSE]
       ELSE IF outcome.kind = "network"
       THEN [ret |-> None, raised |-> None, files |-> fs,
             net |-> TRUE, put |-> FALSE]
       ELSE IF outcome.kind = "error"
       THEN [ret |-> None, raised |-> Some(ParseErrorText), files |-> fs,
             net |-> TRUE, put |-> FALSE]
       ELSE LET sections == BuildSections(outcome.soup)
            IN [ret |-> Some(sections), raised |-> None,
                files |-> SaveToCache(dir, fs, cache_key, sections),
                net |-> TRUE, put |-> TRUE]

\* What one call of fetch_genereview_content did: the identifier, the cache
\* file it found (pre), what the network did if it was asked (kind), and the
\* call's outcome.
FetchLog(nbk_id, fs, outcome, f) ==
    [nbk_id |-> nbk_id, pre |-> fs[GenereviewKey(nbk_id)],
     kind |-> IF f.net THEN outcome.kind ELSE "cached", net |-> f.net,
     ret |-> f.ret, raised |-> f.raised, put |-> f.put]

(***************************************************************************)
(* get_gene_info.  status = "200" with the decoded body, another status,   *)
(* or a RequestException ("network").                                      *)
(***************************************************************************)
GetGeneInfo(dir, fs, gene, outcome) ==
    LET cache_key == GeneKey(gene)
        cached_data == GetCachedData(dir, fs, cache_key)
    IN IF Truthy(cached_data)
       THEN [ret |-> cached_data, files |-> fs, net |-> FALSE, put |-> FALSE]
       ELSE IF outcome.kind = "200"
       THEN [ret |-> Some(outcome.data),
             files |-> SaveToCache(dir, fs, cache_key, outcome.data),
             net |-> TRUE, put |-> TRUE]
       ELSE [ret |-> None, files |-> fs, net |-> TRUE, put |-> FALSE]

(***************************************************************************)
(* Gene aggregator: get_genereview_sections.                               *)
(***************************************************************************)
NoEntriesMsg(gene) == <<"No GeneReviews entries found for gene ">> \o gene
\* FailedMsg with the message of the other branch
FailedMsgNoEntries(gene) == <<"No GeneReviews entries found for gene ">> \o gene

FailedMsg(gene) == <<"Failed to fetch any GeneReviews content for ">> \o gene

\* lines 205-211
DiseaseEntry(nbk_id, sections) ==
    [nbk_id |-> nbk_id,
     disease_name |-> DictGet(sections, "disease_name", <<"Unknown Disease">>),
     clinical_characteristics |->
        IF "clinical_characteristics" \in DOMAIN sections
        THEN Some(sections["clinical_characteristics"]) ELSE None,
     evaluation_of_relatives |->
        IF "evaluation_of_relatives" \in DOMAIN sections
        THEN Some(sections["evaluation_of_relatives"]) ELSE None,
     genetic_counseling |->
        IF "genetic_counseling" \in DOMAIN sections
        THEN Some(sections["genetic_counseling"]) ELSE None]

\* the for loop of lines 202-212 from index i on, then lines 214-221, with
\* the except clause of lines 217-219.
\* outcomes[i] is what the network does if nbk_ids[i] is fetched; log records,
\* per identifier reached, the identifier, whether it went to the network and
\* whether a record came back.
RECURSIVE AggregateFrom(_, _, _, _, _, _, _, _)

\* AggregateFrom that leaves the loop at the first fetch that returns nothing
AggregateFromBreak(gene, nbk_ids, outcomes, i, dir, fs, diseases, log) ==
    IF i > Len(nbk_ids)
    THEN [result |-> [gene |-> gene, diseases |-> diseases,
                      error |-> IF diseases = <<>> THEN Some(FailedMsg(gene)) ELSE None],
          files |-> fs, log |-> log, raised |-> None]
    ELSE LET f == FetchGenereviewContent(dir, fs, nbk_ids[i], outcomes[i])
             entry == FetchLog(nbk_ids[i], fs, outcomes[i], f)
         IN IF f.raised # None
            THEN [result |-> [gene |-> gene, diseases |-> diseases, error |-> f.raised],
                  files |-> f.files, log |-> Append(log, entry), raised |-> None]
            ELSE IF ~Truthy(f.ret)
            THEN [result |-> [gene |-> gene, diseases |-> diseases,
                              error |-> IF diseases = <<>> THEN Some(FailedMsg(gene))
                                        ELSE None],
                  files |-> f.files, log |-> Append(log, entry), raised |-> None]
            ELSE AggregateFrom(gene, nbk_ids, outcomes, i + 1, dir, f.files,
                     Append(diseases, DiseaseEntry(nbk_ids[i], f.ret[1])),
                     Append(log, entry))

AggregateFrom(gene, nbk_ids, outcomes, i, dir, fs, diseases, log) ==
    IF i > Len(nbk_ids)
    THEN [result |-> [gene |-> gene, diseases |-> diseases,
                      error |-> IF diseases = <<>> THEN Some(FailedMsg(gene)) ELSE None],
          files |-> fs, log |-> log, raised |-> None]
    ELSE LET f == FetchGenereviewContent(dir, fs, nbk_ids[i], outcomes[i])
             entry == FetchLog(nbk_ids[i], fs, outcomes[i], f)
         IN IF f.raised # None
            THEN \* except Exception as e: result["error"] = str(e)
                 [result |-> [gene |-> gene, diseases |-> diseases, error |-> f.raised],
                  files |-> f.files, log |-> Append(log, entry), raised |-> None]
            ELSE AggregateFrom(gene, nbk_ids, outcomes, i + 1, dir, f.files,
                     IF Truthy(f.ret)
                     THEN Append(diseases, DiseaseEntry(nbk_ids[i], f.ret[1]))
                     ELSE diseases,
                     Append(log, entry))

\* GetGenereviewSections without gene = gene.upper()
GetGenereviewSectionsNoUpper(g2n, dir, fs, gene_arg, outcomes) ==
    LET nbk_ids == DictGet(g2n, gene_arg, <<>>)
    IN IF nbk_ids = <<>>
       THEN [result |-> [gene |-> gene_arg, diseases |-> <<>>,
                         error |-> Some(NoEntriesMsg(gene_arg))],
             files |-> fs, log |-> <<>>, raised |-> None]
       ELSE AggregateFrom(gene_arg, nbk_ids, outcomes, 1, dir, fs, <<>>, <<>>)

\* GetGenereviewSections without the except clause of lines 217-219
GetGenereviewSectionsNoExcept(g2n, dir, fs, gene_arg, outcomes) ==
    LET gene == Upper(gene_arg)
        nbk_ids == DictGet(g2n, gene, <<>>)
        r == AggregateFrom(gene, nbk_ids, outcomes, 1, dir, fs, <<>>, <<>>)
    IN IF nbk_ids = <<>>
       THEN [result |-> [gene |-> gene, diseases |-> <<>>,
                         error |-> Some(NoEntriesMsg(gene))],
             files |-> fs, log |-> <<>>, raised |-> None]
       ELSE IF \E i \in 1..Len(r.log) : r.log[i].raised # None
       THEN [r EXCEPT !.raised = r.result.error]
       ELSE r

\* One call of get_genereview_sections: the result dict, the cache afterwards,
\* the log of the fetches made, and raised, the Optional message of an exception
\* that leaves the call (none does: line 217 catches Exception).
GetGenereviewSections(g2n, dir, fs, gene_arg, outcomes) ==
    LET gene == Upper(gene_arg)
        nbk_ids == DictGet(g2n, gene, <<>>)
    IN IF nbk_ids = <<>>
       THEN [result |-> [gene |-> gene, diseases |-> <<>>,
                         error |-> Some(NoEntriesMsg(gene))],
             files |-> fs, log |-> <<>>, raised |-> None]
       ELSE AggregateFrom(gene, nbk_ids, outcomes, 1, dir, fs, <<>>, <<>>)

(***************************************************************************)
(* The inputs of the model.                                                *)
(***************************************************************************)
N1 == <<"N", "1">>
N2 == <<"N", "2">>
NbkIds == {N1, N2}

\* "N1\tx\ta" and "N2\tx\tA; b": A -> [N1, N2], B -> [N2]
LineN1 == N1 \o <<TAB, "x", TAB, "a">>
LineN2 == N2 \o <<TAB, "x", TAB, "A", SEMI, SPACE, "b">>
MapText == Join(<<LineN1, LineN2>>, NL)

\* gene symbols a caller passes: mapped (either case) and unmapped
GeneArgs == {<<"a">>, <<"B">>, <<"x">>}
InfoGenes == {<<"a">>}

P(text) == [name |-> "p", strings |-> <<text>>, children |-> <<>>]
H(level, text) == [name |-> level, strings |-> <<text>>, children |-> <<>>]

\* title "Disease X - GeneReviews"; Clinical Characteristics = "A\n\nB";
\* the Genetic Counseling paragraph ends with a quotation mark
DocX ==
    [title |-> Some(<<"Disease X", TitleSep, "GeneReviews">>),
     body |-> << H("h2", <<"Clinical Characteristics">>),
                 P(<<"A">>),
                 [name |-> "ul", strings |-> << <<SPACE>>, <<"B", SPACE>> >>,
                  children |-> <<>>],
                 H("h2", <<"Genetic Counseling">>),
                 P(<<"C", QUOTE>>) >>]

\* no title element; a heading in capitals followed by a tag that is no block
DocY ==
    [title |-> None,
     body |-> << H("h3", <<"3. ", "CLINICAL CHARACTERISTICS">>),
                 [name |-> "div", strings |-> << <<"D">> >>,
                  children |-> <<>>],
                 P(<<"E">>) >>]

Docs == {DocX, DocY}

Outcomes ==
    {[kind |-> "ok", soup |-> d] : d \in Docs}
    \cup {[kind |-> "network", soup |-> NoSoup], [kind |-> "error", soup |-> NoSoup]}

\* bodies the gene information endpoint answers with
GeneInfos == {<<>>, [name |-> <<"gene a">>]}

InfoOutcomes ==
    {[kind |-> "200", data |-> d] : d \in GeneInfos}
    \cup {[kind |-> "404", data |-> <<>>], [kind |-> "network", data |-> <<>>]}

CacheKeys ==
    {GenereviewKey(n) : n \in NbkIds} \cup {GeneKey(g) : g \in InfoGenes}

\* The cache directory as earlier runs of the program can have left it: per key
\* no file, a file whose write completed, or a file cut short while it was
\* being written (open('w') truncates, json.dump writes piecewise).
PriorRecord(key) ==
    IF key \in {GeneKey(g) : g \in InfoGenes} THEN [name |-> <<"gene a">>]
    ELSE BuildSections(DocX)

\* an empty file, a text cut inside a string literal, a text without its last brace
CutPoints(text) == {0, 3, Len(text) - 1}

PriorFiles(key) ==
    LET text == JsonDump(PriorRecord(key))
    IN {[content |-> None, record |-> None],
        [content |-> Some(text), record |-> Some(PriorRecord(key))]}
       \cup {[content |-> Some(SubSeq(text, 1, n)), record |-> None] :
                n \in CutPoints(text)}

NoCall == [op |-> "none"]

(***************************************************************************)
(* History variables.                                                      *)
(***************************************************************************)
\* stored after the _save_to_cache calls of a log, in order
RECURSIVE StoredAfter(_, _)
StoredAfter(st, log) ==
    IF log = <<>> THEN st
    ELSE StoredAfter(IF Head(log).put
                     THEN [st EXCEPT ![GenereviewKey(Head(log).nbk_id)] = Head(log).ret]
                     ELSE st,
                     Tail(log))

\* fetched after the fetch_genereview_content calls of a log, in order
RECURSIVE FetchedAfter(_, _)
FetchedAfter(fe, log) ==
    IF log = <<>> THEN fe
    ELSE FetchedAfter(IF Head(log).ret # None /\ fe[Head(log).nbk_id] = None
                      THEN [fe EXCEPT ![Head(log).nbk_id] = Head(log).ret]
                      ELSE fe,
                      Tail(log))

(***************************************************************************)
(* Specification Spec: a constructed extractor and the calls made on it.   *)
(***************************************************************************)
Init ==
    /\ pc = "ready"
    /\ map_text = MapText
    /\ gene_to_nbk_map = LoadNbkMapping(map_text).g2n
    /\ nbk_to_gene_map = LoadNbkMapping(map_text).n2g
    /\ cache_dir \in {None, Some("cache")}
    \* the cache directory: without one no files, and at most one file cut short
    /\ \E prior \in [CacheKeys -> UNION {PriorFiles(k) : k \in CacheKeys}] :
          /\ \A k \in CacheKeys : prior[k] \in PriorFiles(k)
          /\ cache_dir = None => \A k \in CacheKeys : prior[k].content = None
          /\ Cardinality({k \in CacheKeys :
                 prior[k].content # None /\ prior[k].record = None}) <= 1
          /\ files = [k \in CacheKeys |-> prior[k].content]
          /\ stored = [k \in CacheKeys |-> prior[k].record]
    /\ argv_genes = <<>>
    /\ genes = <<>>
    /\ results = <<>>
    /\ output_data = None
    /\ call = NoCall
    /\ fetched = [n \in NbkIds |-> None]

\* extractor._get_cached_data(cache_key)
CallGetCachedData(cache_key) ==
    /\ pc = "ready"
    /\ call' = [op |-> "get", key |-> cache_key, pre |-> files[cache_key],
                ret |-> GetCachedData(cache_dir, files, cache_key)]
    /\ UNCHANGED <<pc, map_text, gene_to_nbk_map, nbk_to_gene_map, cache_dir, files,
                   argv_genes, genes, results, output_data, fetched, stored>>

\* extractor.get_gene_info(gene)
CallGetGeneInfo(gene, outcome) ==
    /\ pc = "ready"
    /\ LET r == GetGeneInfo(cache_dir, files, gene, outcome)
       IN /\ files' = r.files
          /\ stored' = IF r.put THEN [stored EXCEPT ![GeneKey(gene)] = r.ret] ELSE stored
          /\ call' = [op |-> "info", key |-> GeneKey(gene), pre |-> files[GeneKey(gene)],
                      ret |-> r.ret, net |-> r.net, put |-> r.put]
    /\ UNCHANGED <<pc, map_text, gene_to_nbk_map, nbk_to_gene_map, cache_dir,
                   argv_genes, genes, results, output_data, fetched>>

\* extractor.fetch_genereview_content(nbk_id)
CallFetchGenereviewContent(nbk_id, outcome) ==
    /\ pc = "ready"
    /\ LET f == FetchGenereviewContent(cache_dir, files, nbk_id, outcome)
           log == <<FetchLog(nbk_id, files, outcome, f)>>
       IN /\ files' = f.files
          /\ stored' = StoredAfter(stored, log)
          /\ fetched' = FetchedAfter(fetched, log)
          /\ call' = [op |-> "fetch", log |-> log, fetched0 |-> fetched]
    /\ UNCHANGED <<pc, map_text, gene_to_nbk_map, nbk_to_gene_map, cache_dir,
                   argv_genes, genes, results, output_data>>

\* extractor.get_genereview_sections(gene)
CallGetGenereviewSections(gene) ==
    /\ pc = "ready"
    /\ \E outcomes \in [1..Len(DictGet(gene_to_nbk_map, Upper(gene), <<>>)) -> Outcomes] :
          LET r == GetGenereviewSections(gene_to_nbk_map, cache_dir, files, gene, outcomes)
          IN /\ files' = r.files
             /\ stored' = StoredAfter(stored, r.log)
             /\ fetched' = FetchedAfter(fetched, r.log)
             /\ call' = [op |-> "sections", gene |-> gene, result |-> r.result,
                         log |-> r.log, fetched0 |-> fetched]
    /\ UNCHANGED <<pc, map_text, gene_to_nbk_map, nbk_to_gene_map, cache_dir,
                   argv_genes, genes, results, output_data>>

Next ==
    \/ \E k \in CacheKeys : CallGetCachedData(k)
    \/ \E g \in InfoGenes, o \in InfoOutcomes : CallGetGeneInfo(g, o)
    \/ \E n \in NbkIds, o \in Outcomes : CallFetchGenereviewContent(n, o)
    \/ \E g \in GeneArgs : CallGetGenereviewSections(g)

Spec == Init /\ [][Next]_vars

(***************************************************************************)
(* The constructor and the batch driver main().                            *)
(***************************************************************************)
\* GeneReviewsExtractor(cache_dir) at line 250: __init__ ends with
\* _load_nbk_mapping (line 46).  The load succeeds, or the GET of the mapping
\* raises a RequestException, which line 70 raises again and main's except
\* clause (lines 283-285) turns into exit status 1.
Construct ==
    /\ pc = "start"
    /\ \/ /\ gene_to_nbk_map' = LoadNbkMapping(map_text).g2n
          /\ nbk_to_gene_map' = LoadNbkMapping(map_text).n2g
          /\ pc' = "constructed"
       \/ /\ UNCHANGED <<gene_to_nbk_map, nbk_to_gene_map>>
          /\ pc' = "failed"
    /\ UNCHANGED <<map_text, cache_dir, files, argv_genes, genes, results,
                   output_data, call, fetched, stored>>

\* list(dict.fromkeys(genes)): the first occurrence of every key, in order
RECURSIVE FromKeys(_, _)
FromKeys(list, seen) ==
    IF list = <<>> THEN <<>>
    ELSE IF Head(list) \in seen THEN FromKeys(Tail(list), seen)
    ELSE <<Head(list)>> \o FromKeys(Tail(list), seen \cup {Head(list)})

Dedupe(list) == FromKeys(list, {})

\* lines 251-259
DedupeGenes ==
    /\ pc = "constructed"
    /\ genes' = Dedupe(argv_genes)
    /\ results' = <<>>
    /\ pc' = "loop"
    /\ UNCHANGED <<map_text, gene_to_nbk_map, nbk_to_gene_map, cache_dir, files,
                   argv_genes, output_data, call, fetched, stored>>

\* one iteration of the for loop of lines 261-265; an exception leaving
\* get_genereview_sections would reach main's except clause
ProcessGene ==
    /\ pc = "loop"
    /\ Len(results) < Len(genes)
    /\ LET gene == genes[Len(results) + 1]
       IN \E outcomes \in
                [1..Len(DictGet(gene_to_nbk_map, Upper(gene), <<>>)) -> Outcomes] :
            LET r == GetGenereviewSections(gene_to_nbk_map, cache_dir, files,
                                           gene, outcomes)
            IN /\ files' = r.files
               /\ stored' = StoredAfter(stored, r.log)
               /\ fetched' = FetchedAfter(fetched, r.log)
               /\ call' = [op |-> "batch", logs |-> Append(call.logs, r.log)]
               /\ IF r.raised # None
                  THEN pc' = "failed" /\ UNCHANGED results
                  ELSE pc' = pc /\ results' = Append(results, r.result)
    /\ UNCHANGED <<map_text, gene_to_nbk_map, nbk_to_gene_map, cache_dir,
                   argv_genes, genes, output_data>>

\* lines 268-272, without the timestamp
BuildReport ==
    /\ pc = "loop"
    /\ Len(results) = Len(genes)
    /\ output_data' = Some([genes_processed |-> Len(results), results |-> results])
    /\ pc' = "done"
    /\ UNCHANGED <<map_text, gene_to_nbk_map, nbk_to_gene_map, cache_dir, files,
                   argv_genes, genes, results, call, fetched, stored>>

(***************************************************************************)
(* Specification SpecLoad: the constructor on the mapping texts made of at *)
(* most MaxLines of these lines.                                           *)
(***************************************************************************)
LoadLineSet ==
    { LineN1,                                       \* "N1\tx\ta"
      LineN2,                                       \* "N2\tx\tA; b"
      N1,                                           \* one field
      N2 \o <<TAB, "x">>,                           \* two fields
      <<TAB, "x", TAB, "a">>,                       \* an empty first field
      N1 \o <<TAB, "x", TAB, "b", SEMI, CR>>,       \* "N1\tx\tb;\r"
      <<SPACE>>,                                    \* a blank line
      N2 \o <<TAB, "x", TAB>> }                     \* an empty third field

RECURSIVE LinesUpTo(_)
LinesUpTo(n) ==
    IF n = 0 THEN {<<>>}
    ELSE LinesUpTo(n - 1)
         \cup {Append(ls, l) : ls \in {x \in LinesUpTo(n - 1) : Len(x) = n - 1},
                               l \in LoadLineSet}

LoadTexts == {Join(ls, NL) : ls \in LinesUpTo(MaxLines) \ {<<>>}}

InitLoad ==
    /\ pc = "start"
    /\ map_text \in LoadTexts
    /\ gene_to_nbk_map = EmptyMap
    /\ nbk_to_gene_map = EmptyMap
    /\ cache_dir = Some("cache")
    /\ files = [k \in CacheKeys |-> None]
    /\ stored = [k \in CacheKeys |-> None]
    /\ fetched = [n \in NbkIds |-> None]
    /\ argv_genes = <<>>
    /\ genes = <<>>
    /\ results = <<>>
    /\ output_data = None
    /\ call = NoCall

NextLoad == Construct

SpecLoad == InitLoad /\ [][NextLoad]_vars

(***************************************************************************)
(* Specification SpecMain: main() on the lists of at most MaxGenes symbols.*)
(* main always passes a cache directory (--cache-dir defaults to 'cache'). *)
(***************************************************************************)
ArgGenes == {<<"A">>, <<"a">>, <<"B">>, <<"x">>}

RECURSIVE ListsUpTo(_)
ListsUpTo(n) ==
    IF n = 0 THEN {<<>>}
    ELSE ListsUpTo(n - 1)
         \cup {Append(ls, g) : ls \in {x \in ListsUpTo(n - 1) : Len(x) = n - 1},
                               g \in ArgGenes}

InitMain ==
    /\ pc = "start"
    /\ map_text = MapText
    /\ gene_to_nbk_map = EmptyMap
    /\ nbk_to_gene_map = EmptyMap
    /\ cache_dir = Some("cache")
    /\ files = [k \in CacheKeys |-> None]
    /\ stored = [k \in CacheKeys |-> None]
    /\ fetched = [n \in NbkIds |-> None]
    /\ argv_genes \in ListsUpTo(MaxGenes) \ {<<>>}
    /\ genes = <<>>
    /\ results = <<>>
    /\ output_data = None
    /\ call = [op |-> "batch", logs |-> <<>>]

NextMain ==
    \/ Construct
    \/ DedupeGenes
    \/ ProcessGene
    \/ BuildReport

SpecMain == InitMain /\ [][NextMain]_vars

(***************************************************************************)
(* Specification SpecExtract: _extract_text_from_section on the documents  *)
(* of at most MaxTags body tags, for the three labels the fetcher passes.  *)
(***************************************************************************)
\* a container: its strings are those of its children
Div(children) ==
    [name |-> "div",
     strings |-> Concat([i \in 1..Len(children) |-> children[i].strings]),
     children |-> children]

ExtractTags ==
    {H("h2", <<"Clinical Characteristics">>),
     H("h3", <<"3. ", "CLINICAL CHARACTERISTICS">>),
     H("h2", <<"Genetic Counseling">>),
     H("h4", <<"Other">>),
     P(<<"A">>),
     P(<<SPACE, NL>>),
     [name |-> "ul", strings |-> << <<SPACE>>, <<"B", SPACE>>, <<"C">> >>,
      children |-> <<>>],
     [name |-> "div", strings |-> << <<"D">> >>, children |-> <<>>],
     Div(<<H("h3", <<"Clinical Characteristics">>), P(<<"N">>),
           [name |-> "ol", strings |-> << <<"E">> >>, children |-> <<>>],
           H("h4", <<"Other">>), P(<<"O">>)>>)}

RECURSIVE BodiesUpTo(_)
BodiesUpTo(n) ==
    IF n = 0 THEN {<<>>}
    ELSE BodiesUpTo(n - 1)
         \cup {Append(b, t) : b \in {x \in BodiesUpTo(n - 1) : Len(x) = n - 1},
                              t \in ExtractTags}

ExtractLabels ==
    {<<"Clinical Characteristics">>, <<"Evaluation of Relatives at Risk">>,
     <<"Genetic Counseling">>}

InitExtract ==
    /\ pc = "parsed"
    /\ map_text = MapText
    /\ gene_to_nbk_map = EmptyMap
    /\ nbk_to_gene_map = EmptyMap
    /\ cache_dir = None
    /\ files = [k \in CacheKeys |-> None]
    /\ stored = [k \in CacheKeys |-> None]
    /\ fetched = [n \in NbkIds |-> None]
    /\ argv_genes = <<>>
    /\ genes = <<>>
    /\ results = <<>>
    /\ output_data = None
    /\ \E body \in BodiesUpTo(MaxTags) :
          call = [op |-> "parse", soup |-> [title |-> None, body |-> body],
                  section_title |-> <<>>, text |-> <<>>]

\* one call of _extract_text_from_section on the parsed document
CallExtractTextFromSection ==
    /\ pc \in {"parsed", "extracted"}
    /\ \E section_title \in ExtractLabels :
          call' = [op |-> "extract", soup |-> call.soup,
                   section_title |-> section_title,
                   text |-> ExtractTextFromSection(call.soup, section_title)]
    /\ pc' = "extracted"
    /\ UNCHANGED <<map_text, gene_to_nbk_map, nbk_to_gene_map, cache_dir,
                   files, argv_genes, genes, results, output_data, fetched,
                   stored>>

NextExtract == CallExtractTextFromSection

SpecExtract == InitExtract /\ [][NextExtract]_vars

(***************************************************************************)
(* Properties of get_genereview_sections, checked under Spec.              *)
(***************************************************************************)
\* the identifiers the mapping holds for the gene of the last call
CallIds == DictGet(gene_to_nbk_map, Upper(call.gene), <<>>)

IsSectionsCall == call.op = "sections"

\* the fetches of the last call that returned a record, in order
Succeeded(log) == SelectSeq(log, LAMBDA e : e.ret # None)

NbkIdsOf(seq) == [i \in 1..Len(seq) |-> seq[i].nbk_id]

\* C2: when every fetch of a gene's identifiers either succeeds (from the cache
\* or the network) or fails with a network error, every identifier is fetched in
\* mapping order, diseases holds exactly one entry per identifier whose fetch
\* returned a record, in that order and with that identifier as nbk_id, and
\* error is None whenever at least one fetch succeeded.
C2_PartialSuccess ==
    (/\ IsSectionsCall
     /\ CallIds # <<>>
     /\ \A i \in 1..Len(call.log) : call.log[i].kind \in {"cached", "ok", "network"})
    => /\ NbkIdsOf(call.log) = CallIds
       /\ \A i \in 1..Len(call.log) :
             call.log[i].ret # None <=> call.log[i].kind \in {"cached", "ok"}
       /\ NbkIdsOf(call.result.diseases) = NbkIdsOf(Succeeded(call.log))
       /\ (Succeeded(call.log) # <<>> => call.result.error = None)

\* C2 witness: [N1 fails on the network, N2 succeeds] gives one entry, for N2, and no error
C2_Witness ==
    /\ IsSectionsCall
    /\ CallIds = <<N1, N2>>
    /\ Len(call.log) = 2
    /\ call.log[1].kind = "network"
    /\ call.log[2].kind = "ok"
    /\ NbkIdsOf(call.result.diseases) = <<N2>>
    /\ call.result.error = None

\* C3 as stated: when no fetch of a mapped gene returns a record, diseases is
\* empty and error is "Failed to fetch any GeneReviews content for {GENE}".
C3_AsStated ==
    (/\ IsSectionsCall
     /\ CallIds # <<>>
     /\ Succeeded(call.log) = <<>>)
    => /\ call.result.diseases = <<>>
       /\ call.result.error =
            Some(<<"Failed to fetch any GeneReviews content for ">> \o Upper(call.gene))

\* C3 amended: when every fetch of a mapped gene fails with a network error
\* (RequestException), diseases is empty and error is
\* "Failed to fetch any GeneReviews content for {GENE}", GENE uppercased.
C3_AllNetworkFailures ==
    (/\ IsSectionsCall
     /\ CallIds # <<>>
     /\ \A i \in 1..Len(call.log) : call.log[i].kind = "network")
    => /\ NbkIdsOf(call.log) = CallIds
       /\ call.result.gene = Upper(call.gene)
       /\ call.result.diseases = <<>>
       /\ call.result.error =
            Some(<<"Failed to fetch any GeneReviews content for ">> \o Upper(call.gene))

\* C3 witness: a gene given in lower case, two identifiers, both fetches fail on the network
C3_Witness ==
    /\ IsSectionsCall
    /\ call.gene = <<"a">>
    /\ Len(call.log) = 2
    /\ \A i \in 1..2 : call.log[i].kind = "network"
    /\ call.result.error = Some(<<"Failed to fetch any GeneReviews content for ", "A">>)

\* C4: for a symbol, in any letter case, that has no mapped identifier, the
\* result has gene = the uppercased symbol, diseases = [] and
\* error = "No GeneReviews entries found for gene {GENE}"; nothing is fetched.
C4_NoEntries ==
    (IsSectionsCall /\ CallIds = <<>>)
    => /\ call.result.gene = Upper(call.gene)
       /\ call.result.diseases = <<>>
       /\ call.result.error =
            Some(<<"No GeneReviews entries found for gene ">> \o Upper(call.gene))
       /\ call.log = <<>>

\* C4 witness: "x" is unmapped and is reported as "X"
C4_Witness ==
    /\ IsSectionsCall
    /\ call.gene = <<"x">>
    /\ call.result.error = Some(<<"No GeneReviews entries found for gene ", "X">>)

\* C10 as stated: any failure of one fetch, a parse error included, only skips
\* that identifier: every identifier is fetched and the error field holds no
\* failure of a fetch.
C10_AsStated ==
    (IsSectionsCall /\ CallIds # <<>>)
    => /\ NbkIdsOf(call.log) = CallIds
       /\ NbkIdsOf(call.result.diseases) = NbkIdsOf(Succeeded(call.log))
       /\ \A i \in 1..Len(call.log) :
             call.log[i].raised # None => call.result.error # call.log[i].raised

\* C10 amended: a network error only skips that identifier (the next one is
\* fetched, and the error field never holds it); an exception that is no network
\* error, raised inside fetch_genereview_content, ends the loop: no later
\* identifier is fetched, the entries appended so far are kept and the
\* exception's message becomes the result's error.
C10_SkipOrStop ==
    (IsSectionsCall /\ CallIds # <<>>)
    => /\ Len(call.log) <= Len(CallIds)
       /\ NbkIdsOf(call.log) = SubSeq(CallIds, 1, Len(call.log))
       /\ NbkIdsOf(call.result.diseases) = NbkIdsOf(Succeeded(call.log))
       /\ \A i \in 1..Len(call.log) :
             /\ call.log[i].kind = "network" =>
                   /\ call.log[i].ret = None /\ call.log[i].raised = None
                   /\ i < Len(CallIds) => Len(call.log) > i
             /\ call.log[i].kind = "error" =>
                   /\ i = Len(call.log)
                   /\ call.result.error = Some(ParseErrorText)
       /\ (\A i \in 1..Len(call.log) : call.log[i].kind # "error") =>
             /\ Len(call.log) = Len(CallIds)
             /\ call.result.error \in
                  {None, Some(<<"Failed to fetch any GeneReviews content for ">>
                              \o Upper(call.gene))}

\* C10 witness: the first of two identifiers is fetched and kept, the second
\* raises a parse error, which becomes the error beside the entry
C10_Witness ==
    /\ IsSectionsCall
    /\ CallIds = <<N1, N2>>
    /\ Len(call.log) = 2
    /\ call.log[1].kind = "ok"
    /\ call.log[2].kind = "error"
    /\ NbkIdsOf(call.result.diseases) = <<N1>>
    /\ call.result.error = Some(ParseErrorText)

(***************************************************************************)
(* Properties of the cache store and of fetch_genereview_content, checked  *)
(* under Spec.                                                             *)
(***************************************************************************)
CacheEnabled == cache_dir # None

\* the records fetch_genereview_content can build
SectionRecords == {BuildSections(d) : d \in Docs}

\* a file that holds a text cut short while it was written
IsCut(file) ==
    /\ file # None
    /\ \E k \in CacheKeys :
          LET text == JsonDump(PriorRecord(k))
          IN \E n \in CutPoints(text) : file[1] = SubSeq(text, 1, n)

\* the fetch_genereview_content calls of the last call on the extractor
CallLog == IF call.op \in {"fetch", "sections"} THEN call.log ELSE <<>>

\* C5: with a cache directory, _get_cached_data(key) returns the record of the
\* last _save_to_cache(key, record), and None for a key never saved; without a
\* cache directory every get returns None and no save creates a file.
C5_CacheRoundTrip ==
    /\ CacheEnabled =>
          \A k \in CacheKeys : GetCachedData(cache_dir, files, k) = stored[k]
    /\ ~CacheEnabled =>
          \A k \in CacheKeys :
              GetCachedData(cache_dir, files, k) = None /\ files[k] = None
    /\ call.op = "get" =>
          call.ret = IF CacheEnabled THEN stored[call.key] ELSE None

\* C5 witness: a save that replaces the record {} stored before under the same
\* key, after which get returns the new record
C5_Witness ==
    /\ CacheEnabled
    /\ call.op = "info"
    /\ call.put
    /\ call.pre = Some(<<LBRACE, RBRACE>>)
    /\ call.ret = Some([name |-> <<"gene a">>])
    /\ GetCachedData(cache_dir, files, call.key) = call.ret

\* C6: a cache file cut short is a miss and no error: _get_cached_data returns
\* None for it; fetch_genereview_content goes to the network for it, raises
\* nothing because of it, and, when the fetch succeeds, replaces the file, so
\* that the next get returns the record just built.
C6_CorruptIsMiss ==
    /\ \A k \in CacheKeys :
          IsCut(files[k]) => GetCachedData(cache_dir, files, k) = None
    /\ (call.op = "get" /\ IsCut(call.pre)) => call.ret = None
    /\ \A i \in 1..Len(CallLog) :
          LET e == CallLog[i]
          IN IsCut(e.pre) =>
                /\ e.net
                /\ e.kind # "error" => e.raised = None
                /\ e.kind = "ok" =>
                      /\ e.ret \in {Some(r) : r \in SectionRecords}
                      /\ e.put
                      /\ GetCachedData(cache_dir, files, GenereviewKey(e.nbk_id)) = e.ret

\* C6 witness: a fetch that found a cut file, fetched and replaced it
C6_Witness ==
    /\ call.op = "fetch"
    /\ IsCut(call.log[1].pre)
    /\ call.log[1].kind = "ok"
    /\ GetCachedData(cache_dir, files, GenereviewKey(call.log[1].nbk_id)) = call.log[1].ret
    /\ call.log[1].ret = Some(BuildSections(DocY))

\* the record the first successful fetch of entry i's identifier returned, if
\* that fetch came before entry i
FirstBefore(i) ==
    LET id == CallLog[i].nbk_id
        earlier == {j \in 1..(i - 1) : CallLog[j].nbk_id = id /\ CallLog[j].ret # None}
    IN IF call.fetched0[id] # None THEN call.fetched0[id]
       ELSE IF earlier # {}
       THEN CallLog[CHOOSE j \in earlier : \A m \in earlier : j <= m].ret
       ELSE None

\* C7: with a cache directory, once fetch_genereview_content has returned a
\* record for an identifier, every later call for that identifier returns an
\* equal record without going to the network; and a call that finds a record
\* in the cache returns it without going to the network.
C7_NoRedundantFetch ==
    CacheEnabled =>
       \A i \in 1..Len(CallLog) :
          LET e == CallLog[i]
          IN /\ FirstBefore(i) # None => (e.ret = FirstBefore(i) /\ ~e.net)
             /\ \A r \in SectionRecords :
                   e.pre = Some(JsonDump(r)) => (e.ret = Some(r) /\ ~e.net)

\* C7 witness: a call for an identifier fetched before, whose document the
\* network would now answer differently, served from the cache
C7_Witness ==
    /\ CacheEnabled
    /\ call.op = "sections"
    /\ Len(call.log) = 2
    /\ call.fetched0[N1] = Some(BuildSections(DocY))
    /\ call.log[1].ret = Some(BuildSections(DocY))
    /\ ~call.log[1].net
    /\ call.log[2].kind = "ok"

(***************************************************************************)
(* Properties of _load_nbk_mapping, checked under SpecLoad.                *)
(***************************************************************************)
MapLines == Split(map_text, NL)

\* the tab-delimited fields of a line as given, and of the line trimmed
RawFields(line) == Split(line, TAB)
TrimmedFields(line) == Split(Strip(line), TAB)

\* the gene tokens of a third field, trimmed and uppercased
GeneTokens(field) ==
    LET toks == Split(field, SEMI)
    IN [i \in 1..Len(toks) |-> Upper(Strip(toks[i]))]

\* one copy of id per occurrence of gene among toks
RECURSIVE IdPerToken(_, _, _)
IdPerToken(gene, toks, id) ==
    IF toks = <<>> THEN <<>>
    ELSE (IF Head(toks) = gene THEN <<id>> ELSE <<>>) \o IdPerToken(gene, Tail(toks), id)

\* the identifiers of the lines that list gene, in the order of the lines
RECURSIVE ExpectedIds(_, _)
ExpectedIds(gene, lines) ==
    IF lines = <<>> THEN <<>>
    ELSE LET f == TrimmedFields(Head(lines))
         IN (IF Len(f) >= 3 THEN IdPerToken(gene, GeneTokens(f[3]), f[1]) ELSE <<>>)
            \o ExpectedIds(gene, Tail(lines))

\* the lines that, trimmed, have a third field
GeneLines == {i \in 1..Len(MapLines) : Len(TrimmedFields(MapLines[i])) >= 3}

\* C8 as stated: every non-empty gene token of the third field of a line with a
\* third tab-delimited field is a key whose list contains the line's first field.
C8_AsStated ==
    pc = "constructed" =>
       \A i \in 1..Len(MapLines) :
          LET f == RawFields(MapLines[i])
          IN Len(f) >= 3 =>
                \A t \in Range(GeneTokens(f[3])) \ {<<>>} :
                    /\ t \in DOMAIN gene_to_nbk_map
                    /\ f[1] \in Range(gene_to_nbk_map[t])

\* C8 amended: fields are those of the line with its surrounding whitespace
\* removed.  Every gene token (trimmed, uppercased) of the third field of such a
\* line is a key whose list contains the line's first field; every list is the
\* identifiers of the lines listing the gene, in the order of the lines; lines
\* that, trimmed, have fewer than 3 fields add no key to either map.
C8_MappingLoad ==
    pc = "constructed" =>
       /\ \A i \in GeneLines :
             LET f == TrimmedFields(MapLines[i])
             IN \A t \in Range(GeneTokens(f[3])) :
                   /\ t \in DOMAIN gene_to_nbk_map
                   /\ f[1] \in Range(gene_to_nbk_map[t])
       /\ \A g \in DOMAIN gene_to_nbk_map :
             gene_to_nbk_map[g] = ExpectedIds(g, MapLines)
       /\ DOMAIN gene_to_nbk_map =
             UNION {Range(GeneTokens(TrimmedFields(MapLines[i])[3])) : i \in GeneLines}
       /\ DOMAIN nbk_to_gene_map = {TrimmedFields(MapLines[i])[1] : i \in GeneLines}
       /\ \A id \in DOMAIN nbk_to_gene_map : id \in Range(gene_to_nbk_map[nbk_to_gene_map[id]])

\* C8 witness: a line of one field between two lines that list gene A, which
\* gets their identifiers in the order of the lines
C8_Witness ==
    /\ pc = "constructed"
    /\ MapLines = <<LineN2, N1, LineN1>>
    /\ gene_to_nbk_map[<<"A">>] = <<N2, N1>>
    /\ DOMAIN gene_to_nbk_map = {<<"A">>, <<"B">>}

(***************************************************************************)
(* Properties of main(), checked under SpecMain.                           *)
(***************************************************************************)
\* C1: the report holds exactly one result per symbol that is distinct when
\* letter case is ignored.
C1_CaseInsensitiveDedupe ==
    pc = "done" =>
       /\ Len(results) = Cardinality({Upper(g) : g \in Range(argv_genes)})
       /\ \A i, j \in 1..Len(results) : i # j => results[i].gene # results[j].gene

\* what the fetches made for one gene say its result must be
ErrorFor(gene, log) ==
    IF DictGet(gene_to_nbk_map, Upper(gene), <<>>) = <<>>
    THEN Some(<<"No GeneReviews entries found for gene ">> \o Upper(gene))
    ELSE IF \E i \in 1..Len(log) : log[i].kind = "error"
    THEN Some(ParseErrorText)
    ELSE IF Succeeded(log) = <<>>
    THEN Some(<<"Failed to fetch any GeneReviews content for ">> \o Upper(gene))
    ELSE None

\* C9: once the mapping is loaded the driver never fails; whatever the fetches
\* do, it makes one call per gene of its deduplicated list and appends one
\* result per call, in order; each result is that of its own gene and is decided
\* by that gene's own fetches (an exception shows in the error field of the gene
\* whose fetch raised it and nowhere else); the report holds these results and
\* genes_processed is their number.
C9_GeneIsolation ==
    /\ pc = "failed" => (call.logs = <<>> /\ results = <<>> /\ gene_to_nbk_map = EmptyMap)
    /\ pc \in {"loop", "done"} =>
          /\ Len(call.logs) = Len(results)
          /\ Len(results) <= Len(genes)
          /\ \A i \in 1..Len(results) :
                /\ results[i].gene = Upper(genes[i])
                /\ NbkIdsOf(results[i].diseases) = NbkIdsOf(Succeeded(call.logs[i]))
                /\ results[i].error = ErrorFor(genes[i], call.logs[i])
    /\ pc = "done" =>
          /\ Len(results) = Len(genes)
          /\ output_data = Some([genes_processed |-> Len(genes), results |-> results])

\* C9 witness: three genes; the first has no entry, a fetch of the second raises
\* a parse error, the third is processed all the same and succeeds
C9_Witness ==
    /\ pc = "done"
    /\ genes = << <<"x">>, <<"a">>, <<"B">> >>
    /\ output_data[1].genes_processed = 3
    /\ results[1].error = Some(<<"No GeneReviews entries found for gene ", "X">>)
    /\ results[2].error = Some(ParseErrorText)
    /\ results[3].error = None
    /\ NbkIdsOf(results[3].diseases) = <<N2>>


(***************************************************************************)
(* C11.  Section extraction.                                               *)
(***************************************************************************)
\* the tags of a document of the depth ExtractTags has, by path
TagPaths(tags) ==
    {<<i>> : i \in 1..Len(tags)}
    \cup UNION {{<<i, k>> : k \in 1..Len(tags[i].children)} : i \in 1..Len(tags)}

TagAt(tags, path) ==
    IF Len(path) = 1 THEN tags[path[1]]
    ELSE tags[path[1]].children[path[2]]

\* p comes before q in document order
Precedes(p, q) ==
    \/ p[1] < q[1]
    \/ /\ p[1] = q[1]
       /\ \/ Len(p) < Len(q)
          \/ Len(p) = 2 /\ Len(q) = 2 /\ p[2] < q[2]

MatchingHeadings(tags, label) ==
    {p \in TagPaths(tags) :
        /\ TagAt(tags, p).name \in Headings
        /\ Contains(Lower(label), Lower(TagText(TagAt(tags, p))))}

FirstHeading(tags, label) ==
    CHOOSE p \in MatchingHeadings(tags, label) :
        \A q \in MatchingHeadings(tags, label) \ {p} : Precedes(p, q)

SiblingsAt(tags, path) ==
    IF Len(path) = 1 THEN tags ELSE tags[path[1]].children

Level(name) ==
    CASE name = "h2" -> 2 [] name = "h3" -> 3 [] name = "h4" -> 4

\* index of the first sibling after h whose name is in ends, Len + 1 if none
SectionEnd(siblings, h, ends) ==
    LET S == {j \in (h + 1)..Len(siblings) : siblings[j].name \in ends}
    IN IF S = {} THEN Len(siblings) + 1
       ELSE CHOOSE j \in S : \A k \in S : j <= k

IsTextBlock(tag) == tag.name \in Blocks /\ GetText(tag) # <<>>

\* the headings that end the section of a heading named name
EndingHeadings(name, any_level) ==
    IF any_level THEN Headings
    ELSE {n \in Headings : Level(n) <= Level(name)}

\* the section text of label, ended by a heading of any level or only by
\* one of equal or higher level than the matched heading
SectionText(tags, label, any_level) ==
    IF MatchingHeadings(tags, label) = {} THEN <<>>
    ELSE LET path == FirstHeading(tags, label)
             siblings == SiblingsAt(tags, path)
             h == path[Len(path)]
             ends == EndingHeadings(siblings[h].name, any_level)
             last == SectionEnd(siblings, h, ends) - 1
             blocks == SelectSeq(SubSeq(siblings, h + 1, last), IsTextBlock)
         IN Join([i \in 1..Len(blocks) |-> GetText(blocks[i])], BLANKLINE)

\* C11 as stated: the text returned is that of the non-empty paragraph and
\* list siblings after the first matching heading, joined by a blank line,
\* up to the next sibling heading of equal or higher level; a sibling
\* heading of a lower level does not end the section; no match gives "".
C11_AsStated ==
    pc = "extracted" =>
        call.text = SectionText(call.soup.body, call.section_title, FALSE)

\* C11 (amended): the text returned is that of the non-empty paragraph and
\* list siblings after the first h2/h3/h4 heading whose text contains the
\* label case-insensitively, in document order and joined by a blank line,
\* up to the next sibling heading of any level h2/h3/h4; nothing after that
\* heading is included, and a label with no matching heading gives "".
C11_SectionExtraction ==
    pc = "extracted" =>
        call.text = SectionText(call.soup.body, call.section_title, TRUE)

\* a nested heading is matched after a paragraph and a heading that does
\* not match, two blocks are joined, and a heading of a lower level with a
\* paragraph after it ends the section
C11_Witness ==
    /\ pc = "extracted"
    /\ call.section_title = <<"Clinical Characteristics">>
    /\ MatchingHeadings(call.soup.body, call.section_title) # {}
    /\ LET path == FirstHeading(call.soup.body, call.section_title)
           siblings == SiblingsAt(call.soup.body, path)
           h == path[Len(path)]
           end == SectionEnd(siblings, h, Headings)
       IN /\ Len(path) = 2
          /\ path[1] = 3
          /\ end < Len(siblings)
          /\ Level(siblings[end].name) > Level(siblings[h].name)
          /\ IsTextBlock(siblings[end + 1])
          /\ call.text = <<"N", BLANKLINE, "E">>

====
